---- MODULE Spec2Model ----
(***************************************************************************)
(* A model of DuckDuckGoStartupScraper (src/datascraper.py).               *)
(*                                                                         *)
(* Query strings are TLA+ strings built with \o, as the f-strings of       *)
(* construct_search_queries build them.  Texts that the code searches or   *)
(* slices (titles, snippets, hrefs, urls) are sequences of one-character   *)
(* strings, so that startswith, `in`, lower, re.search and unquote are     *)
(* computed character by character.                                        *)
(***************************************************************************)
EXTENDS Integers, Sequences, FiniteSets, TLC

VARIABLES pc, startup_name, industry, queries_per_topic, search_queries, qi,
          all_results, returned, trace, response, results, analysis

vars == <<pc, startup_name, industry, queries_per_topic, search_queries, qi,
          all_results, returned, trace, response, results, analysis>>

(***************************************************************************)
(* Bounds of the model.                                                    *)
(***************************************************************************)
MaxResults == 2      \* largest max_results / queries_per_topic tried
MaxContainers == 3   \* longest result page tried by the page-level check

Min(a, b) == IF a < b THEN a ELSE b

(***************************************************************************)
(* Optional arguments: None is <<>>, a given string s is <<s>>.            *)
(***************************************************************************)
None == <<>>
Some(s) == <<s>>
\* Python truthiness of an optional string: None and "" are falsy.
Truthy(o) == o # None /\ o[1] # ""

(***************************************************************************)
(* construct_search_queries                                                *)
(***************************************************************************)
base_queries ==
  << "startup grants funding",
     "venture capital investors",
     "seed funding rounds",
     "startup subsidies government",
     "angel investors early stage",
     "series A funding",
     "startup incubator programs" >>

subject_query(name) == "\"" \o name \o "\" funding investors"

industry_queries(ind) == << ind \o " startup grants", ind \o " venture capital" >>

\* The slip the ordering claim guards against: subject phrase moved to the front.
construct_search_queries_subject_first(name, ind) ==
  LET q1 == IF Truthy(ind) THEN industry_queries(ind[1]) \o base_queries
            ELSE base_queries
  IN  IF Truthy(name) THEN <<subject_query(name[1])>> \o q1 ELSE q1

construct_search_queries(name, ind) ==
  LET q0 == base_queries
      q1 == IF Truthy(name) THEN <<subject_query(name[1])>> \o q0 ELSE q0
  IN  IF Truthy(ind) THEN industry_queries(ind[1]) \o q1 ELSE q1

(***************************************************************************)
(* Character-level text operations.                                        *)
(***************************************************************************)
UpperChars == << "A","B","C","D","E","F","G","H","I","J","K","L","M",
                 "N","O","P","Q","R","S","T","U","V","W","X","Y","Z" >>
LowerChars == << "a","b","c","d","e","f","g","h","i","j","k","l","m",
                 "n","o","p","q","r","s","t","u","v","w","x","y","z" >>

\* str.lower() on the ASCII range.
LowerChar(c) ==
  IF \E i \in 1..Len(UpperChars) : UpperChars[i] = c
  THEN LowerChars[CHOOSE i \in 1..Len(UpperChars) : UpperChars[i] = c]
  ELSE c

Lower(s) == [i \in 1..Len(s) |-> LowerChar(s[i])]

\* s.startswith(p)
StartsWith(s, p) == Len(s) >= Len(p) /\ SubSeq(s, 1, Len(p)) = p

\* k in s
Contains(s, k) ==
  \E i \in 1..(Len(s) - Len(k) + 1) : SubSeq(s, i, i + Len(k) - 1) = k

\* s.find(k) as a 1-based index, 0 when absent.
Find(s, k) ==
  IF Contains(s, k)
  THEN CHOOSE i \in 1..(Len(s) - Len(k) + 1) :
         /\ SubSeq(s, i, i + Len(k) - 1) = k
         /\ \A j \in 1..(i - 1) : SubSeq(s, j, j + Len(k) - 1) # k
  ELSE 0

(***************************************************************************)
(* urllib.parse.unquote on ASCII escapes.                                  *)
(***************************************************************************)
HexDigits == << "0","1","2","3","4","5","6","7","8","9",
                "A","B","C","D","E","F" >>

IsHex(c) == \E i \in 1..16 : HexDigits[i] = c \/ LowerChar(HexDigits[i]) = c

\* Both cases of a hex digit are accepted, as in urllib's _hextobyte table.
HexVal(c) ==
  (CHOOSE i \in 1..16 : HexDigits[i] = c \/ LowerChar(HexDigits[i]) = c) - 1

\* The printable ASCII characters, code points 32..126 in order (the grave
\* accent, code 96, is spelled out: it cannot be written in a string).
Printable ==
  << " ","!","\"","#","$","%","&","'","(",")","*","+",",","-",".","/",
     "0","1","2","3","4","5","6","7","8","9",":",";","<","=",">","?",
     "@","A","B","C","D","E","F","G","H","I","J","K","L","M","N","O",
     "P","Q","R","S","T","U","V","W","X","Y","Z","[","\\","]","^","_",
     "grave","a","b","c","d","e","f","g","h","i","j","k","l","m","n","o",
     "p","q","r","s","t","u","v","w","x","y","z","{","|","}","~" >>

\* chr(n) for a decoded byte; bytes outside 32..126 are not drawn by the inputs.
AsciiChr(n) == IF n \in 32..126 THEN Printable[n - 31] ELSE "\\x"

\* An escape "%XY" with two hex digits becomes one character; any other "%"
\* is kept as it is.
RECURSIVE unquote(_)
unquote(s) ==
  IF s = <<>> THEN <<>>
  ELSE IF s[1] = "%" /\ Len(s) >= 3 /\ IsHex(s[2]) /\ IsHex(s[3])
       THEN <<AsciiChr(16 * HexVal(s[2]) + HexVal(s[3]))>>
              \o unquote(SubSeq(s, 4, Len(s)))
       ELSE <<s[1]>> \o unquote(Tail(s))

(***************************************************************************)
(* URL cleaning inside scrape_search_results.                              *)
(***************************************************************************)
WrapperPrefix == <<"/","/","d","u","c","k","d","u","c","k","g","o",".","c","o","m","/","y",".","j","s","?">>
U3Key == <<"u","3","=">>
HttpPrefix == <<"h","t","t","p">>
HttpsColon == <<"h","t","t","p","s",":">>

\* Start positions at which the pattern u3=([^&]+) matches.
U3Starts(s) ==
  { i \in 1..Len(s) : /\ i + 3 <= Len(s)
                      /\ SubSeq(s, i, i + 2) = U3Key
                      /\ s[i + 3] # "&" }

\* re.search(r"u3=([^&]+)", s): None, or group 1 of the leftmost match,
\* the longest run of characters other than "&".
re_search_u3(s) ==
  IF U3Starts(s) = {} THEN None
  ELSE LET i == CHOOSE a \in U3Starts(s) : \A b \in U3Starts(s) : a <= b
           first == i + 3
           stops == { j \in first..Len(s) : s[j] = "&" }
           last  == IF stops = {} THEN Len(s)
                    ELSE (CHOOSE a \in stops : \A b \in stops : a <= b) - 1
       IN  Some(SubSeq(s, first, last))

\* A slip the url claim guards against: the scheme-relative branch forgets
\* to prefix "https:".
clean_url_no_prefix(raw_url) ==
  IF StartsWith(raw_url, WrapperPrefix)
  THEN LET match == re_search_u3(raw_url)
       IN  IF match # None THEN unquote(match[1]) ELSE raw_url
  ELSE raw_url

clean_url(raw_url) ==
  IF StartsWith(raw_url, WrapperPrefix)
  THEN LET match == re_search_u3(raw_url)
       IN  IF match # None THEN unquote(match[1]) ELSE raw_url
  ELSE IF StartsWith(raw_url, HttpPrefix) THEN raw_url
       ELSE HttpsColon \o raw_url

(***************************************************************************)
(* Funding classification inside scrape_search_results.                    *)
(***************************************************************************)
funding_keywords ==
  << <<"f","u","n","d","i","n","g">>,
     <<"i","n","v","e","s","t","m","e","n","t">>,
     <<"g","r","a","n","t">>,
     <<"s","u","b","s","i","d","y">>,
     <<"v","e","n","t","u","r","e">>,
     <<"c","a","p","i","t","a","l">>,
     <<"s","e","r","i","e","s">>,
     <<"r","o","u","n","d">>,
     <<"i","n","v","e","s","t","o","r">>,
     <<"b","a","c","k","e","d">>,
     <<"r","a","i","s","e","d">> >>

\* A slip the classification claim guards against: the snippet is ignored.
is_funding_related_title_only(title, snippet) ==
  \E n \in 1..Len(funding_keywords) :
     Contains(Lower(title), Lower(funding_keywords[n]))

\* any(keyword.lower() in (title + snippet).lower() for keyword in ...)
is_funding_related(title, snippet) ==
  \E n \in 1..Len(funding_keywords) :
     Contains(Lower(title \o snippet), Lower(funding_keywords[n]))

(***************************************************************************)
(* scrape_search_results                                                   *)
(*                                                                         *)
(* A response of session.get is [kind, status, page]: kind "exception"     *)
(* when the call raises, else "http" with a status code and the sequence   *)
(* of .result containers of the parsed page.  A container is               *)
(*   [title_elem, fails, title, href, snippet]:                            *)
(* title_elem says whether ".result__title .result__a" is found, fails     *)
(* whether processing the container raises an exception, href is the       *)
(* href attribute ("" when absent) and snippet is None when no             *)
(* ".result__snippet" element is found.  display_url and timestamp are     *)
(* carried by no claim and are left out of the records.                    *)
(***************************************************************************)
HTTP_OK == 200
DefaultDelay == 2
InterQueryDelay == 1

GetEvent(query, ok) == [op |-> "get", query |-> query, ok |-> ok, secs |-> 0]
SleepEvent(secs) == [op |-> "sleep", query |-> "", ok |-> TRUE, secs |-> secs]

\* A slip the cap claim guards against: the slice [:max_results] is dropped.
Window_unsliced(search_results, max_results) == search_results

\* search_results[:max_results], for max_results > 0
Window(search_results, max_results) ==
  SubSeq(search_results, 1, Min(max_results, Len(search_results)))

\* A slip the rank claim guards against: rank counted among extracted records.
rank_of_extracted(i, acc) == Len(acc) + 1

\* "rank": i + 1 with enumerate's 0-based i; here i is the 1-based position.
rank_of(i, acc) == i

result_data(query, i, c, acc) ==
  LET title   == c.title
      snippet == IF c.snippet # None THEN c.snippet[1] ELSE <<>>
  IN  [ query   |-> query,
        rank    |-> rank_of(i, acc),
        title   |-> title,
        url     |-> clean_url(c.href),
        snippet |-> snippet,
        is_funding_related |-> is_funding_related(title, snippet) ]

\* A slip the fail-soft claim guards against: a per-container handler that
\* skips the failing container and goes on.
RECURSIVE ExtractLoop_failsoft(_, _, _, _)
ExtractLoop_failsoft(query, containers, i, acc) ==
  IF i > Len(containers) THEN [results |-> acc, raised |-> FALSE]
  ELSE LET c == containers[i]
       IN  IF ~c.title_elem \/ c.fails
           THEN ExtractLoop_failsoft(query, containers, i + 1, acc)
           ELSE ExtractLoop_failsoft(query, containers, i + 1,
                                     Append(acc, result_data(query, i, c, acc)))

\* The for loop from container i on; acc is the list results so far.  An
\* exception leaves the loop for the handler of the enclosing try.
RECURSIVE ExtractLoop(_, _, _, _)
ExtractLoop(query, containers, i, acc) ==
  IF i > Len(containers) THEN [results |-> acc, raised |-> FALSE]
  ELSE LET c == containers[i]
       IN  IF ~c.title_elem
           THEN ExtractLoop(query, containers, i + 1, acc)
           ELSE IF c.fails
                THEN [results |-> acc, raised |-> TRUE]
                ELSE ExtractLoop(query, containers, i + 1,
                                 Append(acc, result_data(query, i, c, acc)))

\* A slip the no-abort claim guards against: no handler around the request,
\* so an exception of session.get reaches the caller.
scrape_search_results_uncaught(query, resp, max_results) ==
  IF resp.kind = "exception"
  THEN [results |-> <<>>, events |-> <<GetEvent(query, FALSE)>>,
        propagated |-> TRUE]
  ELSE IF resp.status # HTTP_OK
  THEN [results |-> <<>>, events |-> <<GetEvent(query, FALSE)>>,
        propagated |-> FALSE]
  ELSE LET r == CHOOSE x \in {ExtractLoop(query, Window(resp.page, max_results), 1, <<>>)} : TRUE
       IN  [results |-> r.results,
            events  |-> IF r.raised THEN <<GetEvent(query, TRUE)>>
                        ELSE <<GetEvent(query, TRUE), SleepEvent(DefaultDelay)>>,
            propagated |-> FALSE]

\* The value returned, the requests and sleeps made on the way, and whether
\* an exception leaves the function (never: the try catches Exception).
scrape_search_results(query, resp, max_results) ==
  IF resp.kind = "exception"
  THEN [results |-> <<>>, events |-> <<GetEvent(query, FALSE)>>,
        propagated |-> FALSE]
  ELSE IF resp.status # HTTP_OK
  THEN [results |-> <<>>, events |-> <<GetEvent(query, FALSE)>>,
        propagated |-> FALSE]
  ELSE LET r == CHOOSE x \in {ExtractLoop(query, Window(resp.page, max_results), 1, <<>>)} : TRUE
       IN  [results |-> r.results,
            events  |-> IF r.raised THEN <<GetEvent(query, TRUE)>>
                        ELSE <<GetEvent(query, TRUE), SleepEvent(DefaultDelay)>>,
            propagated |-> FALSE]

(***************************************************************************)
(* Inputs.                                                                 *)
(***************************************************************************)
Container(title, href, snippet) ==
  [title_elem |-> TRUE, fails |-> FALSE, title |-> title, href |-> href,
   snippet |-> snippet]
NoTitleContainer ==
  [title_elem |-> FALSE, fails |-> FALSE, title |-> <<>>, href |-> <<>>,
   snippet |-> None]
FailingContainer ==
  [title_elem |-> TRUE, fails |-> TRUE, title |-> <<>>, href |-> <<>>,
   snippet |-> None]

\* //duckduckgo.com/y.js?u3=https%3A%2F%2Fe.x%2Fa&v=1
HrefWrapped == WrapperPrefix \o <<"u","3","=","h","t","t","p","s","%","3","A","%","2","F","%","2","F","e",".","x","%","2","F","a","&","v","=","1">>
\* //duckduckgo.com/y.js?ad=1
HrefWrappedNoU3 == WrapperPrefix \o <<"a","d","=","1">>
\* //duckduckgo.com/y.js?ad=1&u3=http%3a%2f%2fx.y
HrefWrappedLate == WrapperPrefix \o <<"a","d","=","1","&","u","3","=","h","t","t","p","%","3","a","%","2","f","%","2","f","x",".","y">>
HrefHttp == <<"h","t","t","p",":","/","/","x",".","y">>
HrefSchemeRelative == <<"/","/","e",".","x","/","a">>
HrefEmpty == <<>>
\* the destination carried by HrefWrapped
UrlUnwrapped == <<"h","t","t","p","s",":","/","/","e",".","x","/","a">>

\* funding-related only across the title/snippet boundary and in upper case
ContainerGrant == Container(<<"G","r","a">>, HrefWrapped, Some(<<"N","T">>))
ContainerCat == Container(<<"C","a","t">>, HrefSchemeRelative, None)
ContainerRound == Container(<<"R","O","U","N","D">>, HrefHttp, Some(<<"m","a","t">>))
ContainerMat == Container(<<"M","a","t">>, HrefWrappedNoU3, Some(<<"x">>))
ContainerBacked == Container(<<>>, HrefEmpty, Some(<<"b","a","c","k","e","d">>))
ContainerSeed == Container(<<"s","e","e","d">>, HrefWrappedLate, Some(<<"V","C">>))

Containers ==
  { ContainerGrant, ContainerCat, ContainerRound, ContainerMat,
    ContainerBacked, ContainerSeed, NoTitleContainer, FailingContainer }

SeqsUpTo(S, n) == UNION { [1..k -> S] : k \in 0..n }

RaisedResponse == [kind |-> "exception", status |-> 0, page |-> <<>>]
ErrorResponse == [kind |-> "http", status |-> 503, page |-> <<>>]
PageResponse(page) == [kind |-> "http", status |-> HTTP_OK, page |-> page]

ScrapeResponses ==
  {RaisedResponse, ErrorResponse}
    \cup { PageResponse(p) : p \in SeqsUpTo(Containers, MaxContainers) }

RunPageA == <<NoTitleContainer, ContainerCat, ContainerGrant>>
RunPageB == <<ContainerGrant, FailingContainer, ContainerCat>>

RunResponses ==
  {RaisedResponse, ErrorResponse, PageResponse(RunPageA), PageResponse(RunPageB)}

\* (startup_name, industry) of the runs: the 7 base queries, and 8 queries
RunArgs == { <<None, None>>, <<Some("OpenAI"), None>> }

NameTexts == { a \o b : a \in {"", "Open", "clean "}, b \in {"", "AI", "energy"} }
BuildArgs == {None} \cup { Some(t) : t \in NameTexts }

Caps == 1..MaxResults

(***************************************************************************)
(* find_funding_sources                                                    *)
(***************************************************************************)
IsFunding(r) == r.is_funding_related
IsOther(r) == ~r.is_funding_related

\* A slip the partition claim guards against: the two groups are swapped.
prioritize_others_first(all) ==
  SelectSeq(all, IsOther) \o SelectSeq(all, IsFunding)

\* funding_results + non_funding_results
prioritize(all) ==
  SelectSeq(all, IsFunding) \o SelectSeq(all, IsOther)

\* A slip the pacing claim guards against: no sleep in the query loop.
after_query_events_none == <<>>

\* time.sleep(1) at the end of each iteration of the query loop
after_query_events == <<SleepEvent(InterQueryDelay)>>

Blank ==
  /\ startup_name = None
  /\ industry = None
  /\ queries_per_topic = 0
  /\ search_queries = <<>>
  /\ qi = 0
  /\ all_results = <<>>
  /\ returned = <<>>
  /\ trace = <<>>
  /\ response = RaisedResponse
  /\ results = <<>>
  /\ analysis = <<>>

\* find_funding_sources is called: the query list is built.
Start(name, ind, cap) ==
  /\ pc = "idle"
  /\ pc' = "loop"
  /\ startup_name' = name
  /\ industry' = ind
  /\ queries_per_topic' = cap
  /\ search_queries' = construct_search_queries(name, ind)
  /\ qi' = 1
  /\ all_results' = <<>>
  /\ UNCHANGED <<returned, trace, response, results, analysis>>

\* One iteration of the query loop, the external service answering resp.
\* find_funding_sources has no handler: an exception leaving
\* scrape_search_results would end the run.
ProcessQuery(resp) ==
  /\ pc = "loop"
  /\ qi <= Len(search_queries)
  /\ \E out \in {scrape_search_results(search_queries[qi], resp, queries_per_topic)} :
         /\ response' = resp
         /\ results' = out.results
         /\ IF out.propagated
            THEN /\ pc' = "aborted"
                 /\ trace' = trace \o out.events
                 /\ UNCHANGED <<qi, all_results>>
            ELSE /\ pc' = "loop"
                 /\ all_results' = all_results \o out.results
                 /\ trace' = trace \o out.events \o after_query_events
                 /\ qi' = qi + 1
  /\ UNCHANGED <<startup_name, industry, queries_per_topic, search_queries,
                 returned, analysis>>

\* After the loop: the partition and the return.
Finish ==
  /\ pc = "loop"
  /\ qi > Len(search_queries)
  /\ pc' = "done"
  /\ returned' = prioritize(all_results)
  /\ UNCHANGED <<startup_name, industry, queries_per_topic, search_queries, qi,
                 all_results, trace, response, results, analysis>>

Init == pc = "idle" /\ Blank

Next ==
  \/ \E args \in RunArgs, cap \in Caps : Start(args[1], args[2], cap)
  \/ \E resp \in RunResponses : ProcessQuery(resp)
  \/ Finish

Spec == Init /\ [][Next]_vars

(***************************************************************************)
(* construct_search_queries on its own, over more arguments.               *)
(***************************************************************************)
Build(name, ind) ==
  /\ pc = "build_idle"
  /\ pc' = "built"
  /\ startup_name' = name
  /\ industry' = ind
  /\ search_queries' = construct_search_queries(name, ind)
  /\ UNCHANGED <<queries_per_topic, qi, all_results, returned, trace, response,
                 results, analysis>>

InitBuild == pc = "build_idle" /\ Blank

NextBuild == \E name \in BuildArgs, ind \in BuildArgs : Build(name, ind)

SpecBuild == InitBuild /\ [][NextBuild]_vars

(***************************************************************************)
(* scrape_search_results on its own, over every page up to MaxContainers.  *)
(***************************************************************************)
ScrapeQuery == base_queries[1]

Scrape(resp, cap) ==
  /\ pc = "scrape_idle"
  /\ pc' = "scraped"
  /\ response' = resp
  /\ queries_per_topic' = cap
  /\ \E out \in {scrape_search_results(ScrapeQuery, resp, cap)} :
         /\ results' = out.results
         /\ trace' = out.events
  /\ UNCHANGED <<startup_name, industry, search_queries, qi, all_results,
                 returned, analysis>>

InitScrape == pc = "scrape_idle" /\ Blank

NextScrape == \E resp \in ScrapeResponses, cap \in Caps : Scrape(resp, cap)

SpecScrape == InitScrape /\ [][NextScrape]_vars

(***************************************************************************)
(* analyze_funding_patterns                                                *)
(*                                                                         *)
(* A dict is the sequence of its [key, count] items in insertion order;    *)
(* the empty dict {} is <<>>.  The report is a record, or {} .             *)
(***************************************************************************)
TopDomains == 10

EmptyDict == <<>>

\* d[k] = d.get(k, 0) + 1
DictIncr(d, k) ==
  IF \E i \in 1..Len(d) : d[i].key = k
  THEN [i \in 1..Len(d) |->
          IF d[i].key = k THEN [key |-> k, count |-> d[i].count + 1] ELSE d[i]]
  ELSE Append(d, [key |-> k, count |-> 1])

IsAsciiAlpha(c) ==
  \E i \in 1..Len(UpperChars) : UpperChars[i] = c \/ LowerChars[i] = c

IsSchemeChar(c) ==
  \/ IsAsciiAlpha(c)
  \/ c \in {"0","1","2","3","4","5","6","7","8","9","+","-","."}

\* urlparse(url).netloc: an optional scheme up to the first ":", then the
\* text between a leading "//" and the next "/", "?" or "#".
netloc(url) ==
  LET i == Find(url, <<":">>)
      scheme == /\ i > 1
                /\ IsAsciiAlpha(url[1])
                /\ \A j \in 1..(i - 1) : IsSchemeChar(url[j])
      rest == IF scheme THEN SubSeq(url, i + 1, Len(url)) ELSE url
      stops == { j \in 3..Len(rest) : rest[j] \in {"/", "?", "#"} }
      last == IF stops = {} THEN Len(rest)
              ELSE (CHOOSE a \in stops : \A b \in stops : a <= b) - 1
  IN  IF StartsWith(rest, <<"/","/">>) THEN SubSeq(rest, 3, last) ELSE <<>>

analysis_keywords ==
  << <<"g","r","a","n","t">>,
     <<"s","u","b","s","i","d","y">>,
     <<"v","c">>,
     <<"a","n","g","e","l">>,
     <<"s","e","r","i","e","s"," ","a">>,
     <<"s","e","r","i","e","s"," ","b">>,
     <<"s","e","e","d">>,
     <<"m","i","l","l","i","o","n">>,
     <<"b","i","l","l","i","o","n">>,
     <<"f","u","n","d","e","d">> >>

\* The inner loop over keywords, from keyword n on.
RECURSIVE CountKeywords(_, _, _)
CountKeywords(snippet_lower, n, counts) ==
  IF n > Len(analysis_keywords) THEN counts
  ELSE CountKeywords(snippet_lower, n + 1,
         IF Contains(snippet_lower, analysis_keywords[n])
         THEN DictIncr(counts, analysis_keywords[n]) ELSE counts)

\* The loop over results, from result i on.
RECURSIVE Tally(_, _, _, _)
Tally(rs, i, domains, counts) ==
  IF i > Len(rs) THEN [domains |-> domains, counts |-> counts]
  ELSE Tally(rs, i + 1,
             DictIncr(domains, netloc(rs[i].url)),
             IF rs[i].snippet # <<>>
             THEN CountKeywords(Lower(rs[i].snippet), 1, counts)
             ELSE counts)

\* sorted(items, key=count, reverse=True): stable, larger counts first.
RECURSIVE SortedByCount(_)
SortedByCount(items) ==
  IF items = <<>> THEN <<>>
  ELSE LET rest == SortedByCount(SubSeq(items, 1, Len(items) - 1))
           x == items[Len(items)]
           k == Cardinality({ j \in 1..Len(rest) : rest[j].count >= x.count })
       IN  SubSeq(rest, 1, k) \o <<x>> \o SubSeq(rest, k + 1, Len(rest))

analyze_funding_patterns(rs) ==
  IF rs = <<>> THEN EmptyDict
  ELSE LET t == CHOOSE x \in {Tally(rs, 1, EmptyDict, EmptyDict)} : TRUE
           sorted_domains == SortedByCount(t.domains)
       IN  [ total_results |-> Len(rs),
             funding_related_count |->
               Cardinality({ i \in 1..Len(rs) : rs[i].is_funding_related }),
             top_domains |->
               SubSeq(sorted_domains, 1, Min(TopDomains, Len(sorted_domains))),
             common_keywords |-> SortedByCount(t.counts),
             unique_queries |-> Cardinality({ rs[i].query : i \in 1..Len(rs) }) ]

Analyze(corpus) ==
  /\ pc = "analyze_idle"
  /\ pc' = "analyzed"
  /\ results' = corpus
  /\ analysis' = analyze_funding_patterns(corpus)
  /\ UNCHANGED <<startup_name, industry, queries_per_topic, search_queries, qi,
                 all_results, returned, trace, response>>

InitAnalyze == pc = "analyze_idle" /\ Blank

\* The corpora tried are those find_funding_sources returns for two queries.
NextAnalyze ==
  \E a \in ScrapeResponses, b \in RunResponses, cap \in Caps :
    Analyze(prioritize(
      scrape_search_results(base_queries[1], a, cap).results
        \o scrape_search_results(base_queries[2], b, cap).results))

SpecAnalyze == InitAnalyze /\ [][NextAnalyze]_vars

(***************************************************************************)
(* Properties.                                                             *)
(***************************************************************************)
SubjectPhrase == "\"" \o startup_name[1] \o "\" funding investors"
TopicPhrases == << industry[1] \o " startup grants", industry[1] \o " venture capital" >>

\* C1 as stated: whenever a subject name is given, the subject phrase is the
\* first query; with subject and topic both given, the list is the subject
\* phrase, the two topic phrases, then the seven base phrases.
C1_SubjectFirst ==
  pc = "built" /\ Truthy(startup_name) =>
    /\ search_queries[1] = SubjectPhrase
    /\ Truthy(industry) =>
         search_queries = <<SubjectPhrase>> \o TopicPhrases \o base_queries

\* C1 amended: a subject phrase given without a topic is the first query,
\* followed by the seven base phrases; with subject and topic both given the
\* list is the two topic phrases, then the subject phrase, then the seven
\* base phrases.
C1_TopicBeforeSubject ==
  pc = "built" /\ Truthy(startup_name) =>
    IF Truthy(industry)
    THEN search_queries = TopicPhrases \o <<SubjectPhrase>> \o base_queries
    ELSE search_queries = <<SubjectPhrase>> \o base_queries

C1_Witness ==
  pc = "built" /\ Truthy(startup_name) /\ Truthy(industry)
    /\ Len(search_queries) = 10

\* The containers the loop of the last scrape call ranged over.
Scanned == Window(response.page, queries_per_topic)
PageScraped == pc = "scraped" /\ response.kind = "http" /\ response.status = HTTP_OK
WellFormed(c) == c.title_elem /\ ~c.fails
\* Position of the first container whose processing raises, if any.
Failing == { k \in 1..Len(Scanned) : Scanned[k].title_elem /\ Scanned[k].fails }
FirstFailing ==
  IF Failing = {} THEN Len(Scanned) + 1
  ELSE CHOOSE a \in Failing : \A b \in Failing : a <= b
Ranks(rs) == { rs[i].rank : i \in 1..Len(rs) }

\* C2 as stated: the ranks of the records returned for a page are exactly
\* 1, 2, ..., k in document order; a container without title element
\* consumes no rank.
C2_RanksContiguous ==
  pc = "scraped" => \A i \in 1..Len(results) : results[i].rank = i

\* C2 amended: the rank of a record is the 1-based position of its container
\* among the first max_results containers of the page; ranks increase
\* strictly in document order, and a container without title element is
\* skipped but keeps its position, so its number is missing from the ranks.
C2_RanksArePositions ==
  PageScraped =>
    /\ \A i \in 1..Len(results) :
         /\ results[i].rank \in 1..Len(Scanned)
         /\ WellFormed(Scanned[results[i].rank])
         /\ results[i].title = Scanned[results[i].rank].title
    /\ \A i, j \in 1..Len(results) : i < j => results[i].rank < results[j].rank
    /\ \A k \in 1..Len(Scanned) : ~Scanned[k].title_elem => k \notin Ranks(results)
    /\ Failing = {} =>
         Ranks(results) = { k \in 1..Len(Scanned) : Scanned[k].title_elem }

C2_Witness ==
  /\ PageScraped
  /\ Len(results) = 1
  /\ results[1].rank = 2
  /\ ~Scanned[1].title_elem

\* C3 as stated: when processing a container raises, every later well-formed
\* container within the cap is still extracted.
C3_LaterContainersExtracted ==
  PageScraped =>
    \A k \in 1..Len(Scanned) :
      WellFormed(Scanned[k]) /\ k > FirstFailing => k \in Ranks(results)

\* C3 amended: when processing a container raises, the extraction of the page
\* ends there: the records of the well-formed containers before it are
\* returned, no later container of the page is extracted, the sleep after
\* the page is not made, and the exception does not leave the call.
C3_ExtractionStopsAtFailure ==
  PageScraped /\ Failing # {} =>
    /\ Ranks(results) = { k \in 1..(FirstFailing - 1) : Scanned[k].title_elem }
    /\ Len(results) = Cardinality(Ranks(results))
    /\ trace = <<GetEvent(ScrapeQuery, TRUE)>>

C3_Witness ==
  /\ PageScraped
  /\ FirstFailing = 1
  /\ Len(Scanned) = 2
  /\ WellFormed(Scanned[2])
  /\ results = <<>>

IsSchemeQualified(u) ==
  \/ StartsWith(u, <<"h","t","t","p",":">>)
  \/ StartsWith(u, <<"h","t","t","p","s",":">>)
IsWrapper(h) == StartsWith(h, WrapperPrefix)
HasU3(h) == U3Starts(h) # {}

\* C4 as stated: the url of every record begins with a scheme and is never
\* the raw redirect-wrapper form, whatever the raw href.
C4_UrlSchemeQualified ==
  pc = "scraped" =>
    \A i \in 1..Len(results) :
      IsSchemeQualified(results[i].url) /\ ~IsWrapper(results[i].url)

\* C4 amended: for a redirect-wrapper href without a u3 value the url is the
\* raw href unchanged; for every other raw href tried (a wrapper whose u3
\* carries a percent-encoded http or https destination, an http href, a
\* scheme-relative href, an empty href) the url begins with "http:" or
\* "https:" and is not the wrapper form, and the wrapped destination comes
\* out percent-decoded.
C4_UrlResolved ==
  PageScraped =>
    \A i \in 1..Len(results) :
      LET href == Scanned[results[i].rank].href
          url  == results[i].url
      IN  IF IsWrapper(href) /\ ~HasU3(href)
          THEN url = href
          ELSE /\ IsSchemeQualified(url)
               /\ ~IsWrapper(url)
               /\ href = HrefWrapped => url = UrlUnwrapped
               /\ href = HrefWrappedLate => url = HrefHttp

\* A wrapper without u3 kept as it is, beside an empty href resolved.
C4_Witness ==
  /\ PageScraped
  /\ Len(results) = 2
  /\ results[1].url = HrefWrappedNoU3
  /\ results[2].url = HttpsColon

\* C5: between two consecutive requests of a run the pause of the query loop
\* is made, whether the earlier query succeeded, got a non-200 status or
\* raised: every request but the first directly follows that sleep.
C5_PacingBetweenQueries ==
  \A i \in 2..Len(trace) :
    trace[i].op = "get" => trace[i - 1] = SleepEvent(InterQueryDelay)

\* A failed request and a page whose extraction raised, each followed by a
\* later request.
C5_Witness ==
  /\ \E i, j \in 1..Len(trace) :
       i < j /\ trace[i].op = "get" /\ ~trace[i].ok /\ trace[j].op = "get"
  /\ \E i \in 1..(Len(trace) - 2) :
       /\ trace[i].op = "get" /\ trace[i].ok
       /\ trace[i + 1] = SleepEvent(InterQueryDelay)
       /\ trace[i + 2].op = "get"

IsGet(e) == e.op = "get"
Requests == SelectSeq(trace, IsGet)
InRun == pc \in {"loop", "done", "aborted"}

\* C6: a failed request (non-200 status or exception) adds no record of its
\* query to the corpus and never ends the run: the requests made so far are
\* the queries of the list in order, one each, and the run returns only
\* after the whole list has been requested.
C6_FetchFailureContinues ==
  InRun =>
    /\ pc # "aborted"
    /\ Len(Requests) = qi - 1
    /\ \A i \in 1..Len(Requests) : Requests[i].query = search_queries[i]
    /\ \A i \in 1..Len(Requests) :
         ~Requests[i].ok =>
           /\ \A j \in 1..Len(all_results) : all_results[j].query # Requests[i].query
           /\ \A j \in 1..Len(returned) : returned[j].query # Requests[i].query
    /\ pc = "done" => Len(Requests) = Len(search_queries)

C6_Witness ==
  /\ pc = "done"
  /\ ~Requests[1].ok
  /\ response.kind = "exception"
  /\ Len(returned) > 0

Position(seq, r) == CHOOSE j \in 1..Len(seq) : seq[j] = r
QueryIndex(q) == CHOOSE n \in 1..Len(search_queries) : search_queries[n] = q

\* C7: the corpus returned is a stable partition of the collected corpus,
\* made once after the last query: funding-related records first, both
\* groups in collection order, nothing dropped or duplicated; until then
\* the collected corpus stays in collection order and nothing is returned.
C7_StablePartition ==
  /\ pc = "loop" => returned = <<>>
  /\ InRun =>
       \A i, j \in 1..Len(all_results) :
         i < j =>
           \/ QueryIndex(all_results[i].query) < QueryIndex(all_results[j].query)
           \/ /\ all_results[i].query = all_results[j].query
              /\ all_results[i].rank < all_results[j].rank
  /\ pc = "done" =>
       /\ Len(returned) = Len(all_results)
       /\ \A i \in 1..Len(all_results) :
            Cardinality({ j \in 1..Len(returned) : returned[j] = all_results[i] }) = 1
       /\ \A j, k \in 1..Len(returned) :
            j < k => ~(~returned[j].is_funding_related /\ returned[k].is_funding_related)
       /\ \A i, k \in 1..Len(all_results) :
            i < k /\ all_results[i].is_funding_related = all_results[k].is_funding_related
              => Position(returned, all_results[i]) < Position(returned, all_results[k])

C7_Witness ==
  /\ pc = "done"
  /\ returned # all_results
  /\ Len(returned) >= 4
  /\ returned[2].is_funding_related
  /\ ~returned[Len(returned) - 1].is_funding_related

\* The text some keyword of the list occurs in, compared in lower case.
HasFundingKeyword(text) ==
  \E n \in 1..Len(funding_keywords) :
    \E i \in 1..Len(text) :
      /\ i + Len(funding_keywords[n]) - 1 <= Len(text)
      /\ \A d \in 1..Len(funding_keywords[n]) :
           LowerChar(text[i + d - 1]) = funding_keywords[n][d]

\* C9: for every record of the corpus, while collected and after the
\* partition, is_funding_related is true exactly when the lower-cased title
\* followed by the snippet contains one of the eleven keywords.
C9_FlagIsKeywordMatch ==
  /\ \A i \in 1..Len(all_results) :
       all_results[i].is_funding_related
         <=> HasFundingKeyword(all_results[i].title \o all_results[i].snippet)
  /\ \A i \in 1..Len(returned) :
       returned[i].is_funding_related
         <=> HasFundingKeyword(returned[i].title \o returned[i].snippet)

\* A record flagged by a keyword that spans the end of the title, and one
\* not flagged.
C9_Witness ==
  /\ pc = "done"
  /\ \E i \in 1..Len(returned) :
       /\ returned[i].is_funding_related
       /\ ~HasFundingKeyword(returned[i].title)
       /\ ~HasFundingKeyword(returned[i].snippet)
  /\ \E i \in 1..Len(returned) : ~returned[i].is_funding_related

CapAndUniqueRanks(corpus) ==
  /\ \A i \in 1..Len(corpus) : corpus[i].rank \in 1..queries_per_topic
  /\ \A i, j \in 1..Len(corpus) :
       i # j => \/ corpus[i].query # corpus[j].query
                \/ corpus[i].rank # corpus[j].rank
  /\ \A n \in 1..Len(search_queries) :
       Cardinality({ i \in 1..Len(corpus) : corpus[i].query = search_queries[n] })
         <= queries_per_topic

C8_EmptyCorpusReport ==
  pc = "analyzed" /\ results = <<>> =>
    /\ {"total_results", "funding_related_count", "top_domains", "common_keywords"}
         \subseteq DOMAIN analysis
    /\ analysis.total_results = 0
    /\ analysis.funding_related_count = 0
    /\ analysis.top_domains = <<>>
    /\ analysis.common_keywords = <<>>

====
